---- MODULE Spec2Model ----
(***************************************************************************)
(* A model of espmonitor (src/espmonitor/src/lib.rs, main.rs): the serial  *)
(* line assembler (handle_serial), the address symbolicator (process_line),*)
(* the device session with its two threads (run_child, stdin_thread_fn,    *)
(* reset_chip) and the process life cycle (main, run).                     *)
(*                                                                         *)
(* Text is a sequence of Unicode code points, device and tool output a     *)
(* sequence of bytes; both are sequences of naturals.  Result-typed error  *)
(* paths (every `?`) are modelled; panics are not.                         *)
(***************************************************************************)
EXTENDS Integers, Sequences, FiniteSets, TLC

(***************************************************************************)
(* Bounds of the model.                                                    *)
(***************************************************************************)
\* total number of bytes fed to handle_serial in the line-assembler runs
MaxRx == 4
\* saturation of the modelled Instant::elapsed() counter, in seconds
MaxElapsed == 6
\* number of pieces a line given to process_line is made of
MaxPieces == 3
\* number of chunks the device sends in a session
MaxReads == 2
\* number of resets the user asks for in a session
MaxResets == 1

(***************************************************************************)
(* Program constants.                                                      *)
(***************************************************************************)
\* '\n', the separator of data.split('\n')
LF == 10
\* U+FFFD, what String::from_utf8_lossy puts for an invalid sequence
REPLACEMENT == 65533
\* UNFINISHED_LINE_TIMEOUT, in seconds
UNFINISHED_LINE_TIMEOUT == 5
\* the size of the read buffer of run_child
BufSize == 1024

(***************************************************************************)
(* Sequences.                                                              *)
(***************************************************************************)
Last(s) == s[Len(s)]

Front(s) == SubSeq(s, 1, Len(s) - 1)

Drop(s, k) == SubSeq(s, k + 1, Len(s))

Min(a, b) == IF a <= b THEN a ELSE b

\* whether pat occurs in s starting at index i
MatchAt(s, pat, i) ==
    /\ i + Len(pat) - 1 <= Len(s)
    /\ \A k \in 1..Len(pat) : s[i + k - 1] = pat[k]

(***************************************************************************)
(* UTF-8.  The byte alphabets of the model hold ASCII bytes (< 128),       *)
(* continuation bytes (128..191) and lead bytes of two-byte sequences      *)
(* (194..223); on these String::from_utf8_lossy decodes a lead followed by *)
(* a continuation to one code point and replaces every other non-ASCII     *)
(* byte by U+FFFD.                                                         *)
(***************************************************************************)
IsAscii(b) == b < 128

IsCont(b) == b \in 128..191

IsLead2(b) == b \in 194..223

RECURSIVE Utf8Lossy(_)
Utf8Lossy(buf) ==
    IF buf = <<>> THEN <<>>
    ELSE IF IsAscii(buf[1]) THEN <<buf[1]>> \o Utf8Lossy(Drop(buf, 1))
    ELSE IF IsLead2(buf[1]) /\ Len(buf) >= 2 /\ IsCont(buf[2])
         THEN <<(buf[1] - 192) * 64 + (buf[2] - 128)>> \o Utf8Lossy(Drop(buf, 2))
    ELSE <<REPLACEMENT>> \o Utf8Lossy(Drop(buf, 1))

\* String::from_utf8: Ok exactly when no byte needs replacing
RECURSIVE Utf8Valid(_)
Utf8Valid(buf) ==
    IF buf = <<>> THEN TRUE
    ELSE IF IsAscii(buf[1]) THEN Utf8Valid(Drop(buf, 1))
    ELSE IF IsLead2(buf[1]) /\ Len(buf) >= 2 /\ IsCont(buf[2])
         THEN Utf8Valid(Drop(buf, 2))
    ELSE FALSE

(***************************************************************************)
(* str::split(sep): the segments between separators; n separators give     *)
(* n + 1 segments, empty ones included.                                    *)
(***************************************************************************)
RECURSIVE SplitFrom(_, _, _)
SplitFrom(s, sep, cur) ==
    IF s = <<>> THEN <<cur>>
    ELSE IF s[1] = sep THEN <<cur>> \o SplitFrom(Drop(s, 1), sep, <<>>)
    ELSE SplitFrom(Drop(s, 1), sep, Append(cur, s[1]))

Split(s, sep) == SplitFrom(s, sep, <<>>)

EndsWith(s, c) == s # <<>> /\ Last(s) = c

(***************************************************************************)
(* Character classes of the two regular expressions.                       *)
(***************************************************************************)
\* [0-9]
IsDigit(c) == c \in 48..57

\* [0-9a-f]
IsHex(c) == c \in 48..57 \/ c \in 97..102

\* \s (Unicode White_Space, the part below U+00A1)
IsSpace(c) == c \in 9..13 \/ c = 32 \/ c = 133 \/ c = 160

\* FUNC_ADDR_RE = 0x4[0-9a-f]{7}, matched at index i
FuncAddrAt(s, i) ==
    /\ i + 9 <= Len(s)
    /\ s[i] = 48 /\ s[i + 1] = 120 /\ s[i + 2] = 52
    /\ \A k \in 3..9 : IsHex(s[i + k])

\* FUNC_ADDR_RE.find_iter(line): the start indices of the leftmost,
\* non-overlapping matches, in order
RECURSIVE FindIterFrom(_, _)
FindIterFrom(s, i) ==
    IF i > Len(s) THEN <<>>
    ELSE IF FuncAddrAt(s, i) THEN <<i>> \o FindIterFrom(s, i + 10)
    ELSE FindIterFrom(s, i + 1)

FindIter(s) == FindIterFrom(s, 1)

NotBlank(c) == c # 32

\* membership in a named character class
InClass(cls, c) ==
    CASE cls = "digit" -> IsDigit(c)
      [] cls = "hex"   -> IsHex(c)
      [] cls = "space" -> IsSpace(c)
      [] OTHER         -> NotBlank(c)

\* the last index of the run of characters of class cls that starts at
\* index i, i - 1 when s[i] is not in the class
RECURSIVE RunEnd(_, _, _)
RunEnd(s, i, cls) ==
    IF i <= Len(s) /\ InClass(cls, s[i]) THEN RunEnd(s, i + 1, cls) ELSE i - 1

\* the end of (\?\?|[0-9]+) matched at index i and followed by ':', 0 if none
FileEnd(s, i) ==
    IF MatchAt(s, <<63, 63, 58>>, i) THEN i + 1
    ELSE LET e == RunEnd(s, i, "digit")
         IN  IF e >= i /\ e + 1 <= Len(s) /\ s[e + 1] = 58 THEN e ELSE 0

\* the end of (\?|[0-9]+) matched at index i, 0 if none
LineEnd(s, i) ==
    IF i <= Len(s) /\ s[i] = 63 THEN i
    ELSE LET e == RunEnd(s, i, "digit") IN IF e >= i THEN e ELSE 0

LexGE(t, u) ==
    \/ t[1] > u[1]
    \/ t[1] = u[1] /\ t[2] > u[2]
    \/ t[1] = u[1] /\ t[2] = u[2] /\ t[3] > u[3]
    \/ t[1] = u[1] /\ t[2] = u[2] /\ t[3] = u[3] /\ t[4] >= u[4]

(***************************************************************************)
(* ADDR2LINE_RE.captures(output), for                                      *)
(*   ^0x[0-9a-f]+:\s+([^ ]+)\s+at\s+(\?\?|[0-9]+):(\?|[0-9]+)              *)
(* <<>> when there is no match, else the three groups.  With p the index   *)
(* of the ':' that ends the address, a, b, c, d are the ends of the first  *)
(* \s+, of group 1, of the second and of the third \s+; every quantifier   *)
(* is greedy, so the match taken is the valid one with the greatest        *)
(* <<a, b, c, d>>.                                                         *)
(***************************************************************************)
\* (\?\?|[0-9]+):(\?|[0-9]+) matches at index i
LocatorAt(s, i, fe) == fe # 0 /\ LineEnd(s, fe + 2) # 0

Addr2LineMatches(s, p) ==
    UNION { UNION { UNION { { <<a, b, c, d>> :
        d \in { j \in (c + 3)..RunEnd(s, c + 3, "space") : LocatorAt(s, j + 1, FileEnd(s, j + 1)) } } :
        c \in { j \in (b + 1)..RunEnd(s, b + 1, "space") : MatchAt(s, <<97, 116>>, j + 1) } } :
        b \in (a + 1)..RunEnd(s, a + 1, "notblank") } :
        a \in (p + 1)..RunEnd(s, p + 1, "space") }

Addr2LineGroups(s, t, fe) ==
    << SubSeq(s, t[1] + 1, t[2]), SubSeq(s, t[4] + 1, fe), SubSeq(s, fe + 2, LineEnd(s, fe + 2)) >>

Addr2LineFirst(s, t) == Addr2LineGroups(s, t, FileEnd(s, t[4] + 1))

Addr2LinePick(s, cands) ==
    IF cands = {} THEN <<>>
    ELSE Addr2LineFirst(s, CHOOSE t \in cands : \A u \in cands : LexGE(t, u))

Addr2LineAfterHex(s, h) ==
    IF h >= 3 /\ h + 1 <= Len(s) /\ s[h + 1] = 58
    THEN Addr2LinePick(s, Addr2LineMatches(s, h + 1))
    ELSE <<>>

Addr2LineCaptures(s) ==
    IF Len(s) >= 2 /\ s[1] = 48 /\ s[2] = 120
    THEN Addr2LineAfterHex(s, RunEnd(s, 3, "hex"))
    ELSE <<>>

(***************************************************************************)
(* str::replace(from, to): every non-overlapping occurrence of from,       *)
(* found left to right, is replaced by to.                                 *)
(***************************************************************************)
RECURSIVE ReplaceFrom(_, _, _, _)
ReplaceFrom(s, from, to, i) ==
    IF i > Len(s) THEN <<>>
    ELSE IF MatchAt(s, from, i) THEN to \o ReplaceFrom(s, from, to, i + Len(from))
    ELSE <<s[i]>> \o ReplaceFrom(s, from, to, i + 1)

Replace(s, from, to) == ReplaceFrom(s, from, to, 1)

(***************************************************************************)
(* The external tool {tool_prefix}addr2line.  One run of it is a record:   *)
(* spawn (the process could be started and waited for), exit (its exit     *)
(* status) and stdout (the bytes it wrote).                                *)
(***************************************************************************)
\* .output().ok().and_then(|output| String::from_utf8(output.stdout).ok())
ToolText(r) ==
    IF r.spawn /\ Utf8Valid(r.stdout)
    THEN [some |-> TRUE, val |-> Utf8Lossy(r.stdout)]
    ELSE [some |-> FALSE, val |-> <<>>]

\* format!("{} [{}:{}:{}]", mat, caps[1], caps[2], caps[3])
FormatName(mat, caps) ==
    mat \o <<32, 91>> \o caps[1] \o <<58>> \o caps[2] \o <<58>> \o caps[3] \o <<93>>

\* the body of the loop of process_line for one match
SubstituteOne(updated_line, mat, r) ==
    LET output == ToolText(r)
        caps   == IF output.some THEN Addr2LineCaptures(output.val) ELSE <<>>
    IN  IF output.some /\ caps # <<>>
        THEN Replace(updated_line, mat, FormatName(mat, caps))
        ELSE updated_line

\* the loop given up at the first match whose resolution fails
RECURSIVE ProcessMatches_StopAtFailure(_, _, _, _, _)
ProcessMatches_StopAtFailure(line, updated_line, starts, oracle, k) ==
    IF k > Len(starts) THEN updated_line
    ELSE IF ~(ToolText(oracle[k]).some
                /\ Addr2LineCaptures(ToolText(oracle[k]).val) # <<>>)
    THEN updated_line
    ELSE ProcessMatches_StopAtFailure(line,
                        SubstituteOne(updated_line,
                                      SubSeq(line, starts[k], starts[k] + 9),
                                      oracle[k]),
                        starts, oracle, k + 1)

RECURSIVE ProcessMatches(_, _, _, _, _)
ProcessMatches(line, updated_line, starts, oracle, k) ==
    IF k > Len(starts) THEN updated_line
    ELSE ProcessMatches(line,
                        SubstituteOne(updated_line,
                                      SubSeq(line, starts[k], starts[k] + 9),
                                      oracle[k]),
                        starts, oracle, k + 1)

\* process_line without the test of state.bin
ProcessLine_IgnoreBin(b, line, oracle) ==
    [line  |-> ProcessMatches(line, line, FindIter(line), oracle, 1),
     calls |-> [k \in 1..Len(FindIter(line)) |-> SubSeq(line, FindIter(line)[k], FindIter(line)[k] + 9)]]

(***************************************************************************)
(* process_line(state, line).  b is state.bin (FALSE: None); oracle gives  *)
(* the outcome of each run of the tool, in order.  calls are the address   *)
(* arguments the tool was run with.                                        *)
(***************************************************************************)
ProcessLine(b, line, oracle) ==
    IF b
    THEN LET starts == FindIter(line)
         IN  [line  |-> ProcessMatches(line, line, starts, oracle, 1),
              calls |-> [k \in 1..Len(starts) |-> SubSeq(line, starts[k], starts[k] + 9)]]
    ELSE [line |-> line, calls |-> <<>>]

(***************************************************************************)
(* handle_serial(state, buf).                                              *)
(***************************************************************************)
\* the loop without state.unfinished_line.clear() after a line is printed
RECURSIVE ForLines_NoClear(_, _, _, _, _)
ForLines_NoClear(lines, k, acc, b, oracle) ==
    IF k > Len(lines) THEN acc
    ELSE LET pushed    == IF acc.unfinished_line # <<>>
                          THEN acc.unfinished_line \o lines[k]
                          ELSE acc.unfinished_line
             full_line == IF acc.unfinished_line # <<>> THEN pushed ELSE lines[k]
             processed == ProcessLine(b, full_line, Drop(oracle, acc.used))
         IN  IF full_line # <<>>
             THEN ForLines_NoClear(lines, k + 1,
                           [unfinished_line |-> pushed,
                            printed |-> Append(acc.printed, processed.line),
                            used    |-> acc.used + Len(processed.calls)],
                           b, oracle)
             ELSE ForLines_NoClear(lines, k + 1, [acc EXCEPT !.unfinished_line = pushed],
                           b, oracle)

\* the loop printing the segment alone, the pending fragment dropped
RECURSIVE ForLines_NoPrepend(_, _, _, _, _)
ForLines_NoPrepend(lines, k, acc, b, oracle) ==
    IF k > Len(lines) THEN acc
    ELSE LET full_line == lines[k]
             processed == ProcessLine(b, full_line, Drop(oracle, acc.used))
         IN  IF full_line # <<>>
             THEN ForLines_NoPrepend(lines, k + 1,
                           [unfinished_line |-> <<>>,
                            printed |-> Append(acc.printed, processed.line),
                            used    |-> acc.used + Len(processed.calls)],
                           b, oracle)
             ELSE ForLines_NoPrepend(lines, k + 1, acc, b, oracle)

\* the loop `for line in lines`: acc is [unfinished_line, printed, used],
\* used counting the runs of the tool so far
RECURSIVE ForLines(_, _, _, _, _)
ForLines(lines, k, acc, b, oracle) ==
    IF k > Len(lines) THEN acc
    ELSE LET pushed    == IF acc.unfinished_line # <<>>
                          THEN acc.unfinished_line \o lines[k]
                          ELSE acc.unfinished_line
             full_line == IF acc.unfinished_line # <<>> THEN pushed ELSE lines[k]
             processed == ProcessLine(b, full_line, Drop(oracle, acc.used))
         IN  IF full_line # <<>>
             THEN ForLines(lines, k + 1,
                           [unfinished_line |-> <<>>,
                            printed |-> Append(acc.printed, processed.line),
                            used    |-> acc.used + Len(processed.calls)],
                           b, oracle)
             ELSE ForLines(lines, k + 1, [acc EXCEPT !.unfinished_line = pushed],
                           b, oracle)

\* handle_serial printing a fragment older than the threshold on its own
\* when the next chunk arrives, line-feed or not
HandleSerialFn_FlushStale(unfinished, elapsed, b, buf, oracle) ==
    LET data  == Utf8Lossy(buf)
        split == Split(data, LF)
        stale == unfinished # <<>> /\ elapsed > UNFINISHED_LINE_TIMEOUT
        lines == IF EndsWith(data, LF) THEN split ELSE Front(split)
        acc   == ForLines(lines, 1,
                          [unfinished_line |-> IF stale THEN <<>> ELSE unfinished,
                           printed |-> IF stale THEN <<unfinished>> ELSE <<>>,
                           used |-> 0],
                          b, oracle)
    IN  [unfinished_line |-> IF EndsWith(data, LF) THEN acc.unfinished_line
                             ELSE acc.unfinished_line \o Last(split),
         stamped |-> ~EndsWith(data, LF),
         printed |-> acc.printed]

\* the result: the new unfinished_line, whether last_unfinished_line_at was
\* set to now, and the lines printed with rprintln!
HandleSerialFn(unfinished, elapsed, b, buf, oracle) ==
    LET data  == Utf8Lossy(buf)
        split == Split(data, LF)
        nel   == IF EndsWith(data, LF)
                 THEN [some |-> FALSE, val |-> <<>>]
                 ELSE [some |-> TRUE, val |-> Last(split)]
        lines == IF EndsWith(data, LF) THEN split ELSE Front(split)
        acc   == ForLines(lines, 1,
                          [unfinished_line |-> unfinished, printed |-> <<>>, used |-> 0],
                          b, oracle)
    IN  IF nel.some
        THEN [unfinished_line |-> acc.unfinished_line \o nel.val,
              stamped |-> TRUE,
              printed |-> acc.printed]
        ELSE IF acc.unfinished_line # <<>> /\ elapsed > UNFINISHED_LINE_TIMEOUT
        THEN [unfinished_line |-> <<>>,
              stamped |-> FALSE,
              printed |-> Append(acc.printed,
                                 ProcessLine(b, acc.unfinished_line,
                                             Drop(oracle, acc.used)).line)]
        ELSE [unfinished_line |-> acc.unfinished_line,
              stamped |-> FALSE,
              printed |-> acc.printed]

(***************************************************************************)
(* State.                                                                  *)
(***************************************************************************)
VARIABLES
    bin,              \* SerialState.bin / AppArgs.bin: TRUE when Some
    unfinished_line,  \* SerialState.unfinished_line
    sinceLast,        \* SerialState.last_unfinished_line_at.elapsed(), seconds
    emitted,          \* the lines printed by handle_serial, in order
    rxBytes,          \* history: every byte passed to handle_serial
    rxText,           \* history: the decoded text of every chunk
    lastCall,         \* history: the latest call of handle_serial: its chunk,
                      \* and, as they were when it began, the fragment,
                      \* whether it was older than UNFINISHED_LINE_TIMEOUT
                      \* and the number of lines printed
    lateCall,         \* history: some call began with a fragment older than
                      \* UNFINISHED_LINE_TIMEOUT
    pl,               \* a call of process_line on its own: the line, the
                      \* outcomes of the tool, the line returned and the
                      \* address arguments the tool was run with
    platform,         \* "unix" (run forks) or "windows" (run works in-process)
    argsReset,        \* AppArgs.reset
    rawMode,          \* the terminal is in raw mode
    ppc,              \* where the process started by the invoker is, outside
                      \* run_child
    mpc,              \* where the main thread of run_child is
    lpc,              \* where the key-listener thread is
    lockHolder,       \* who holds the Mutex of the device
    dtr,              \* the DTR line of the device
    rts,              \* the RTS line of the device
    resetLog,         \* the control-line writes of the latest reset_chip
    buf,              \* the bytes of the latest read that returned data
    lastRead,         \* the outcome of the latest read of the main loop
    runErr,           \* the error run is returning, "none" if none
    childState,       \* unix: the forked child, as waitpid sees it
    childStatus,      \* unix: the exit status of the child, -1 before it exits
    exitStatus,       \* the exit status the invoker observes, -1 before the exit
    haltCause,        \* history: what ended the process that ran run_child
    devLeft,          \* number of chunks the device sends before it goes
                      \* quiet
    nResets,          \* number of resets asked for with Ctrl+R
    resetDuringRead   \* history: the reset being performed was asked for
                      \* while a read held the lock

serVars == <<bin, unfinished_line, sinceLast, emitted, rxBytes, rxText, lastCall, lateCall>>

sysVars == <<platform, argsReset, rawMode, ppc, mpc, lpc, lockHolder, dtr, rts,
             resetLog, buf, lastRead, runErr, childState, childStatus, exitStatus,
             haltCause, devLeft, nResets, resetDuringRead>>

vars == <<serVars, pl, sysVars>>

(***************************************************************************)
(* The line assembler on its own: handle_serial is called with chunk after *)
(* chunk, and time passes between the calls.                               *)
(***************************************************************************)
\* 'A', '\n', and the two bytes of U+00E9
SerialBytes == {65, LF, 195, 169}

RECURSIVE SeqsUpTo(_, _)
SeqsUpTo(S, n) ==
    IF n = 0 THEN {<<>>}
    ELSE LET shorter == SeqsUpTo(S, n - 1)
         IN  shorter \cup { Append(s, x) : s \in { t \in shorter : Len(t) = n - 1 }, x \in S }

\* what one run of the tool may write
ToolOutputs ==
    { <<>>,
      \* "0x4000000a: f at ??:?\n"
      <<48,120,52,48,48,48,48,48,48,97,58,32,102,32,97,116,32,63,63,58,63,10>>,
      \* "f at ??:?\n"
      <<102,32,97,116,32,63,63,58,63,10>>,
      \* "0x4000000a: f at /m.rs:12\n"
      <<48,120,52,48,48,48,48,48,48,97,58,32,102,32,97,116,32,47,109,46,114,115,58,49,50,10>>,
      \* a lone continuation byte
      <<169>> }

ToolResults ==
    [spawn : {TRUE}, exit : {0, 1}, stdout : ToolOutputs]
        \cup [spawn : {FALSE}, exit : {0}, stdout : {<<>>}]

\* one outcome for each address token of the text
Oracles(text) == [1..Len(FindIter(text)) -> ToolResults]

\* SerialState as run_child builds it, and nothing received yet
InitSerialState ==
    /\ unfinished_line = <<>>
    /\ sinceLast = 0
    /\ emitted = <<>>
    /\ rxBytes = <<>>
    /\ rxText = <<>>
    /\ lastCall = [buf |-> <<>>, unfinished |-> <<>>, late |-> FALSE, printed |-> 0]
    /\ lateCall = FALSE
    /\ pl = [called |-> FALSE, line |-> <<>>, oracle |-> <<>>, out |-> <<>>, calls |-> <<>>]

\* the process before main runs; the device lines are as the system left them
InitProcess ==
    /\ platform \in {"unix", "windows"}
    /\ argsReset \in BOOLEAN
    /\ rawMode = FALSE
    /\ ppc = "start" /\ mpc = "none" /\ lpc = "none"
    /\ lockHolder = "none"
    /\ dtr \in BOOLEAN /\ rts \in BOOLEAN
    /\ resetLog = <<>>
    /\ buf = <<>>
    /\ lastRead = "none"
    /\ runErr = "none"
    /\ childState = "none" /\ childStatus = -1
    /\ exitStatus = -1
    /\ haltCause = "none"
    /\ devLeft \in 0..MaxReads
    /\ nResets = 0
    /\ resetDuringRead = FALSE

\* handle_serial called outside a session: the fields of the process are
\* fixed
InitSerial ==
    /\ bin \in BOOLEAN
    /\ InitSerialState
    /\ InitProcess
    /\ platform = "unix" /\ argsReset = FALSE /\ dtr /\ rts /\ devLeft = 0

\* one call handle_serial(&mut serial_state, &buf[0..bytes])
CallHandleSerial(chunk, oracle) ==
    LET r == HandleSerialFn(unfinished_line, sinceLast, bin, chunk, oracle)
    IN  /\ unfinished_line' = r.unfinished_line
        /\ sinceLast' = IF r.stamped THEN 0 ELSE sinceLast
        /\ emitted' = emitted \o r.printed
        /\ rxBytes' = rxBytes \o chunk
        /\ rxText' = rxText \o Utf8Lossy(chunk)
        /\ lastCall' = [buf |-> chunk, unfinished |-> unfinished_line,
                        late |-> sinceLast > UNFINISHED_LINE_TIMEOUT,
                        printed |-> Len(emitted)]
        /\ lateCall' = (lateCall \/ (unfinished_line # <<>>
                                        /\ sinceLast > UNFINISHED_LINE_TIMEOUT))
        /\ UNCHANGED bin

FeedChunk ==
    \E chunk \in SeqsUpTo(SerialBytes, Min(BufSize, MaxRx - Len(rxBytes))) \ {<<>>} :
        \E oracle \in Oracles(unfinished_line \o Utf8Lossy(chunk)) :
            CallHandleSerial(chunk, oracle)

\* a second passes
Tick ==
    /\ mpc # "dead"
    /\ sinceLast < MaxElapsed
    /\ sinceLast' = sinceLast + 1
    /\ UNCHANGED <<bin, unfinished_line, emitted, rxBytes, rxText, lastCall, lateCall>>

NextSerial == (FeedChunk /\ UNCHANGED <<pl, sysVars>>) \/ (Tick /\ UNCHANGED <<pl, sysVars>>)

SpecSerial == InitSerial /\ [][NextSerial]_vars


(***************************************************************************)
(* The symbolicator on its own: one call of process_line.                  *)
(***************************************************************************)
\* "0x4000000a", "0x4000000b", "0x3000000a", " " and "x"
LinePieces ==
    { <<48,120,52,48,48,48,48,48,48,97>>,
      <<48,120,52,48,48,48,48,48,48,98>>,
      <<48,120,51,48,48,48,48,48,48,97>>,
      <<32>>,
      <<120>> }

RECURSIVE Concat(_)
Concat(ss) == IF ss = <<>> THEN <<>> ELSE ss[1] \o Concat(Drop(ss, 1))

Lines == { Concat(ps) : ps \in SeqsUpTo(LinePieces, MaxPieces) }

InitLine ==
    /\ InitSerial

CallProcessLine ==
    /\ ~pl.called
    /\ \E line \in Lines : \E oracle \in Oracles(line) :
          LET r == ProcessLine(bin, line, oracle)
          IN  pl' = [called |-> TRUE, line |-> line, oracle |-> oracle,
                     out |-> r.line, calls |-> r.calls]
    /\ UNCHANGED <<serVars, sysVars>>

NextLine == CallProcessLine

SpecLine == InitLine /\ [][NextLine]_vars

(***************************************************************************)
(* The session: main, run, run_child, reset_chip and stdin_thread_fn.      *)
(***************************************************************************)
\* what the device may deliver to one read: "A", "A\n", "0x4000000a\n"
DeviceChunks ==
    { <<65>>,
      <<65, LF>>,
      <<48,120,52,48,48,48,48,48,48,97, LF>> }

\* the process that runs run_child is alive
SessionAlive == mpc \notin {"none", "dead"}

\* the process that runs run_child ends with status code: exit(code), or
\* main returning (code 0).  On unix it is the child, and the parent sees
\* it in waitpid; on windows it is the process the invoker started.
SessionExit(code, cause) ==
    /\ mpc' = "dead" /\ lpc' = "dead" /\ lockHolder' = "none"
    /\ haltCause' = cause
    /\ IF platform = "unix"
       THEN /\ childState' = "exited" /\ childStatus' = code
            /\ UNCHANGED <<exitStatus, ppc>>
       ELSE /\ exitStatus' = code /\ ppc' = "exited"
            /\ UNCHANGED <<childState, childStatus>>

(***************************************************************************)
(* main and run.                                                           *)
(***************************************************************************)
\* enable_raw_mode()?  On windows run goes on to run_child in this process.
EnableRawMode ==
    /\ ppc = "start"
    /\ \/ /\ rawMode' = TRUE
          /\ IF platform = "unix"
             THEN ppc' = "fork" /\ UNCHANGED mpc
             ELSE ppc' = "inproc" /\ mpc' = "open"
          /\ UNCHANGED runErr
       \/ /\ runErr' = "enable" /\ ppc' = "mainret"
          /\ UNCHANGED <<rawMode, mpc>>
    /\ UNCHANGED <<serVars, pl, platform, argsReset, lpc, lockHolder, dtr, rts, resetLog,
                   buf, lastRead, childState, childStatus, exitStatus, haltCause,
                   devLeft, nResets, resetDuringRead>>

\* unsafe { fork() }: the child runs run_child, the parent waits; Err(err)
\* is returned by run as it is
Fork ==
    /\ ppc = "fork"
    /\ \/ /\ ppc' = "wait" /\ childState' = "running" /\ mpc' = "open"
          /\ UNCHANGED runErr
       \/ /\ runErr' = "fork" /\ ppc' = "mainret"
          /\ UNCHANGED <<childState, mpc>>
    /\ UNCHANGED <<serVars, pl, platform, argsReset, rawMode, lpc, lockHolder, dtr, rts,
                   resetLog, buf, lastRead, childStatus, exitStatus, haltCause,
                   devLeft, nResets, resetDuringRead>>

\* the arms of the parent's waitpid loop: disable_raw_mode()?; exit(status)
ParentExitWith(status) ==
    \/ /\ rawMode' = FALSE /\ exitStatus' = status /\ ppc' = "exited"
       /\ UNCHANGED runErr
    \/ /\ runErr' = "disable" /\ ppc' = "mainret"
       /\ UNCHANGED <<rawMode, exitStatus>>

ParentWaitExited ==
    /\ ppc = "wait" /\ childState = "exited"
    /\ ParentExitWith(childStatus)
    /\ UNCHANGED <<serVars, pl, platform, argsReset, mpc, lpc, lockHolder, dtr, rts,
                   resetLog, buf, lastRead, childState, childStatus, haltCause,
                   devLeft, nResets, resetDuringRead>>

ParentWaitSignaled ==
    /\ ppc = "wait" /\ childState = "signaled"
    /\ ParentExitWith(255)
    /\ UNCHANGED <<serVars, pl, platform, argsReset, mpc, lpc, lockHolder, dtr, rts,
                   resetLog, buf, lastRead, childState, childStatus, haltCause,
                   devLeft, nResets, resetDuringRead>>

\* main, in the process the invoker started, with run's Err: the arm
\* Ok(_) => () takes it, and main returns
MainReturnsRoot ==
    /\ ppc = "mainret"
    /\ exitStatus' = 0 /\ ppc' = "exited"
    /\ haltCause' = IF haltCause = "none" THEN runErr ELSE haltCause
    /\ UNCHANGED <<serVars, pl, platform, argsReset, rawMode, mpc, lpc, lockHolder, dtr,
                   rts, resetLog, buf, lastRead, runErr, childState, childStatus,
                   devLeft, nResets, resetDuringRead>>

\* unix: the child is killed by a signal
ChildSignaled ==
    /\ platform = "unix" /\ childState = "running"
    /\ childState' = "signaled"
    /\ mpc' = "dead" /\ lpc' = "dead" /\ lockHolder' = "none"
    /\ haltCause' = "signal"
    /\ UNCHANGED <<serVars, pl, platform, argsReset, rawMode, ppc, dtr, rts, resetLog,
                   buf, lastRead, runErr, childStatus, exitStatus, devLeft,
                   nResets, resetDuringRead>>

(***************************************************************************)
(* reset_chip(dev): one step of it.  pc is where the caller is in it, ok   *)
(* whether the step's call succeeds.  The result is the next place         *)
(* ("reset_done", "reset_err") and the lines.                              *)
(***************************************************************************)
ResetPcs == {"reset_flush", "reset_dtr", "reset_rts1", "reset_rts0"}

\* reset_chip with the two writes of RTS in the other order
ResetChipStep_RtsOrderSwapped(pc, ok) ==
    IF ~ok
    THEN [pc |-> "reset_err", dtr |-> dtr, rts |-> rts, log |-> resetLog]
    ELSE CASE pc = "reset_flush" ->
                [pc |-> "reset_dtr", dtr |-> dtr, rts |-> rts, log |-> <<>>]
           [] pc = "reset_dtr" ->
                [pc |-> "reset_rts1", dtr |-> FALSE, rts |-> rts,
                 log |-> Append(resetLog, <<"dtr", FALSE>>)]
           [] pc = "reset_rts1" ->
                [pc |-> "reset_rts0", dtr |-> dtr, rts |-> FALSE,
                 log |-> Append(resetLog, <<"rts", FALSE>>)]
           [] pc = "reset_rts0" ->
                [pc |-> "reset_done", dtr |-> dtr, rts |-> TRUE,
                 log |-> Append(resetLog, <<"rts", TRUE>>)]

ResetChipStep(pc, ok) ==
    IF ~ok
    THEN [pc |-> "reset_err", dtr |-> dtr, rts |-> rts, log |-> resetLog]
    ELSE CASE pc = "reset_flush" ->
                [pc |-> "reset_dtr", dtr |-> dtr, rts |-> rts, log |-> <<>>]
           [] pc = "reset_dtr" ->
                [pc |-> "reset_rts1", dtr |-> FALSE, rts |-> rts,
                 log |-> Append(resetLog, <<"dtr", FALSE>>)]
           [] pc = "reset_rts1" ->
                [pc |-> "reset_rts0", dtr |-> dtr, rts |-> TRUE,
                 log |-> Append(resetLog, <<"rts", TRUE>>)]
           [] pc = "reset_rts0" ->
                [pc |-> "reset_done", dtr |-> dtr, rts |-> FALSE,
                 log |-> Append(resetLog, <<"rts", FALSE>>)]

(***************************************************************************)
(* run_child.                                                              *)
(***************************************************************************)
\* run_child starting the key listener before the start-up reset
OpenDevice_ListenerFirst ==
    /\ mpc = "open"
    /\ \/ /\ mpc' = IF argsReset THEN "reset_flush" ELSE "spawn"
          /\ lpc' = IF argsReset THEN "poll" ELSE lpc
          /\ UNCHANGED runErr
       \/ /\ runErr' = "open" /\ mpc' = "ret"
          /\ UNCHANGED lpc
    /\ UNCHANGED <<serVars, pl, platform, argsReset, rawMode, ppc, lockHolder, dtr,
                   rts, resetLog, buf, lastRead, childState, childStatus, exitStatus,
                   haltCause, devLeft, nResets, resetDuringRead>>

\* serial::open, set_timeout and reconfigure, each with `?`
OpenDevice ==
    /\ mpc = "open"
    /\ \/ /\ mpc' = IF argsReset THEN "reset_flush" ELSE "spawn"
          /\ UNCHANGED runErr
       \/ /\ runErr' = "open" /\ mpc' = "ret"
    /\ UNCHANGED <<serVars, pl, platform, argsReset, rawMode, ppc, lpc, lockHolder, dtr,
                   rts, resetLog, buf, lastRead, childState, childStatus, exitStatus,
                   haltCause, devLeft, nResets, resetDuringRead>>

\* if args.reset { reset_chip(&mut dev)?; }
StartupReset ==
    /\ mpc \in ResetPcs
    /\ \E ok \in BOOLEAN :
          LET r == ResetChipStep(mpc, ok)
          IN  /\ dtr' = r.dtr /\ rts' = r.rts /\ resetLog' = r.log
              /\ mpc' = CASE r.pc = "reset_done" -> "spawn"
                          [] r.pc = "reset_err"  -> "ret"
                          [] OTHER               -> r.pc
              /\ runErr' = IF r.pc = "reset_err" THEN "reset" ELSE runErr
    /\ UNCHANGED <<serVars, pl, platform, argsReset, rawMode, ppc, lpc, lockHolder, buf,
                   lastRead, childState, childStatus, exitStatus, haltCause, devLeft,
                   nResets, resetDuringRead>>

\* Arc::new(Mutex::new(dev)), thread::spawn of the key listener, and the
\* SerialState: the main loop begins
SpawnListener ==
    /\ mpc = "spawn"
    /\ lpc' = "poll" /\ mpc' = "lock"
    /\ UNCHANGED <<serVars, pl, platform, argsReset, rawMode, ppc, lockHolder, dtr, rts,
                   resetLog, buf, lastRead, runErr, childState, childStatus, exitStatus,
                   haltCause, devLeft, nResets, resetDuringRead>>

\* dev.lock().unwrap() of the main loop
MainLock ==
    /\ mpc = "lock" /\ lockHolder = "none"
    /\ lockHolder' = "main" /\ mpc' = "read"
    /\ UNCHANGED <<serVars, pl, platform, argsReset, rawMode, ppc, lpc, dtr, rts,
                   resetLog, buf, lastRead, runErr, childState, childStatus, exitStatus,
                   haltCause, devLeft, nResets, resetDuringRead>>

\* the read with every error taken as an idle outcome: the loop sleeps and
\* tries again
MainRead_RetryOnError ==
    /\ mpc = "read"
    /\ lockHolder' = "none"
    /\ \/ \E chunk \in DeviceChunks :
            /\ devLeft > 0 /\ Len(chunk) <= BufSize
            /\ buf' = chunk /\ devLeft' = devLeft - 1
            /\ lastRead' = "data" /\ mpc' = "handle"
       \/ \E outcome \in {"zero", "TimedOut", "WouldBlock", "error"} :
            /\ lastRead' = outcome /\ mpc' = "sleep"
            /\ UNCHANGED <<buf, devLeft>>
    /\ UNCHANGED <<serVars, pl, platform, argsReset, rawMode, ppc, lpc, dtr, rts,
                   resetLog, runErr, childState, childStatus, exitStatus, haltCause,
                   nResets, resetDuringRead>>

\* .read(&mut buf) returns, and the guard is dropped at the end of the match
MainRead ==
    /\ mpc = "read"
    /\ lockHolder' = "none"
    /\ \/ \E chunk \in DeviceChunks :
            /\ devLeft > 0 /\ Len(chunk) <= BufSize
            /\ buf' = chunk /\ devLeft' = devLeft - 1
            /\ lastRead' = "data" /\ mpc' = "handle"
            /\ UNCHANGED runErr
       \/ \E outcome \in {"zero", "TimedOut", "WouldBlock"} :
            /\ lastRead' = outcome /\ mpc' = "sleep"
            /\ UNCHANGED <<buf, devLeft, runErr>>
       \/ /\ lastRead' = "error" /\ runErr' = "read" /\ mpc' = "ret"
          /\ UNCHANGED <<buf, devLeft>>
    /\ UNCHANGED <<serVars, pl, platform, argsReset, rawMode, ppc, lpc, dtr, rts,
                   resetLog, childState, childStatus, exitStatus, haltCause,
                   nResets, resetDuringRead>>

\* handle_serial(&mut serial_state, &buf[0..bytes])?
MainHandle ==
    /\ mpc = "handle"
    /\ \E oracle \in Oracles(unfinished_line \o Utf8Lossy(buf)) :
          CallHandleSerial(buf, oracle)
    /\ mpc' = "lock" /\ lastRead' = "none"
    /\ UNCHANGED <<pl, platform, argsReset, rawMode, ppc, lpc, lockHolder, dtr, rts,
                   resetLog, buf, runErr, childState, childStatus, exitStatus,
                   haltCause, devLeft, nResets, resetDuringRead>>

\* sleep(Duration::from_millis(25))
MainSleep ==
    /\ mpc = "sleep"
    /\ mpc' = "lock" /\ lastRead' = "none"
    /\ UNCHANGED <<serVars, pl, platform, argsReset, rawMode, ppc, lpc, lockHolder, dtr,
                   rts, resetLog, buf, runErr, childState, childStatus,
                   exitStatus, haltCause, devLeft, nResets, resetDuringRead>>

\* run_child has returned its Err to run.  On windows run goes on with
\* disable_raw_mode()? and returns the result; on unix the child's run
\* returns it as it is.
RunChildReturns ==
    /\ mpc = "ret"
    /\ mpc' = "main"
    /\ IF platform = "windows"
       THEN \/ rawMode' = FALSE /\ UNCHANGED runErr
            \/ runErr' = "disable" /\ UNCHANGED rawMode
       ELSE UNCHANGED <<rawMode, runErr>>
    /\ UNCHANGED <<serVars, pl, platform, argsReset, ppc, lpc, lockHolder, dtr, rts,
                   resetLog, buf, lastRead, childState, childStatus, exitStatus,
                   haltCause, devLeft, nResets, resetDuringRead>>

\* main, in the process that ran run_child, with run's Err: the arm
\* Ok(_) => () takes it, and main returns
MainReturns ==
    /\ mpc = "main"
    /\ SessionExit(0, runErr)
    /\ UNCHANGED <<serVars, pl, platform, argsReset, rawMode, dtr, rts, resetLog, buf,
                   lastRead, runErr, devLeft, nResets, resetDuringRead>>

(***************************************************************************)
(* stdin_thread_fn.                                                        *)
(***************************************************************************)
\* event::poll(Duration::from_millis(250))?
ListenerPoll ==
    /\ lpc = "poll"
    /\ \E outcome \in {"event", "none", "error"} :
          lpc' = CASE outcome = "event" -> "event"
                   [] outcome = "none"  -> "poll"
                   [] OTHER             -> "failed"
    /\ UNCHANGED <<serVars, pl, platform, argsReset, rawMode, ppc, mpc, lockHolder, dtr,
                   rts, resetLog, buf, lastRead, runErr, childState, childStatus,
                   exitStatus, haltCause, devLeft, nResets, resetDuringRead>>

\* event::read() gives Ctrl+R: the listener goes for the lock
ListenerCtrlR ==
    /\ lpc = "event" /\ nResets < MaxResets
    /\ lpc' = "lock" /\ nResets' = nResets + 1
    /\ resetDuringRead' = (mpc = "read")
    /\ UNCHANGED <<serVars, pl, platform, argsReset, rawMode, ppc, mpc, lockHolder, dtr,
                   rts, resetLog, buf, lastRead, runErr, childState, childStatus,
                   exitStatus, haltCause, devLeft>>

\* event::read() gives Ctrl+C: exit(0)
ListenerCtrlC ==
    /\ lpc = "event"
    /\ SessionExit(0, "quit")
    /\ UNCHANGED <<serVars, pl, platform, argsReset, rawMode, dtr, rts, resetLog, buf,
                   lastRead, runErr, devLeft, nResets, resetDuringRead>>

\* event::read() gives another key or event, or Err(err)
ListenerOtherEvent ==
    /\ lpc = "event"
    /\ \E outcome \in {"other", "error"} :
          lpc' = IF outcome = "other" THEN "poll" ELSE "failed"
    /\ UNCHANGED <<serVars, pl, platform, argsReset, rawMode, ppc, mpc, lockHolder, dtr,
                   rts, resetLog, buf, lastRead, runErr, childState, childStatus,
                   exitStatus, haltCause, devLeft, nResets, resetDuringRead>>

\* the listener going on to the device without waiting for the mutex
ListenerLock_NoWait ==
    /\ lpc = "lock"
    /\ lockHolder' = "stdin" /\ lpc' = "reset_flush"
    /\ UNCHANGED <<serVars, pl, platform, argsReset, rawMode, ppc, mpc, dtr, rts,
                   resetLog, buf, lastRead, runErr, childState, childStatus, exitStatus,
                   haltCause, devLeft, nResets, resetDuringRead>>

\* let mut dev = dev.lock().unwrap()
ListenerLock ==
    /\ lpc = "lock" /\ lockHolder = "none"
    /\ lockHolder' = "stdin" /\ lpc' = "reset_flush"
    /\ UNCHANGED <<serVars, pl, platform, argsReset, rawMode, ppc, mpc, dtr, rts,
                   resetLog, buf, lastRead, runErr, childState, childStatus, exitStatus,
                   haltCause, devLeft, nResets, resetDuringRead>>

\* the reset with the guard kept when `?` returns the error
ListenerReset_HoldsOnError ==
    /\ lpc \in ResetPcs
    /\ \E ok \in BOOLEAN :
          LET r == ResetChipStep(lpc, ok)
          IN  /\ dtr' = r.dtr /\ rts' = r.rts /\ resetLog' = r.log
              /\ lpc' = CASE r.pc = "reset_done" -> "poll"
                          [] r.pc = "reset_err"  -> "failed"
                          [] OTHER               -> r.pc
              /\ lockHolder' = IF r.pc = "reset_done" THEN "none" ELSE lockHolder
              /\ resetDuringRead' = IF r.pc \in {"reset_done", "reset_err"}
                                    THEN FALSE ELSE resetDuringRead
    /\ UNCHANGED <<serVars, pl, platform, argsReset, rawMode, ppc, mpc, buf, lastRead,
                   runErr, childState, childStatus, exitStatus, haltCause, devLeft,
                   nResets>>

\* reset_chip(&mut dev)?; the guard is dropped when the block ends or `?`
\* returns
ListenerReset ==
    /\ lpc \in ResetPcs
    /\ \E ok \in BOOLEAN :
          LET r == ResetChipStep(lpc, ok)
          IN  /\ dtr' = r.dtr /\ rts' = r.rts /\ resetLog' = r.log
              /\ lpc' = CASE r.pc = "reset_done" -> "poll"
                          [] r.pc = "reset_err"  -> "failed"
                          [] OTHER               -> r.pc
              /\ lockHolder' = IF r.pc \in {"reset_done", "reset_err"}
                               THEN "none" ELSE lockHolder
              /\ resetDuringRead' = IF r.pc \in {"reset_done", "reset_err"}
                                    THEN FALSE ELSE resetDuringRead
    /\ UNCHANGED <<serVars, pl, platform, argsReset, rawMode, ppc, mpc, buf, lastRead,
                   runErr, childState, childStatus, exitStatus, haltCause, devLeft,
                   nResets>>

\* a listener failure that ends the process with status 0
ListenerExit_Status0 ==
    /\ lpc = "failed"
    /\ SessionExit(0, "listener")
    /\ UNCHANGED <<serVars, pl, platform, argsReset, rawMode, dtr, rts, resetLog, buf,
                   lastRead, runErr, devLeft, nResets, resetDuringRead>>

\* if stdin_thread_fn(dev).is_err() { exit(1); }
ListenerExit ==
    /\ lpc = "failed"
    /\ SessionExit(1, "listener")
    /\ UNCHANGED <<serVars, pl, platform, argsReset, rawMode, dtr, rts, resetLog, buf,
                   lastRead, runErr, devLeft, nResets, resetDuringRead>>

(***************************************************************************)
(* The surroundings.                                                       *)
(***************************************************************************)
\* the device sends nothing more
DeviceQuiet == devLeft = 0

\* the steps of the main thread but the call of handle_serial
MainThreadElsewhere ==
    \/ OpenDevice \/ StartupReset \/ SpawnListener
    \/ MainLock \/ MainRead \/ MainSleep
    \/ RunChildReturns \/ MainReturns

\* a second passes while the session runs and a fragment is pending (the
\* age of last_unfinished_line_at is read only when there is one, and
\* every chunk that leaves one sets it anew)
SessionTick ==
    /\ SessionAlive /\ unfinished_line # <<>>
    /\ Tick
    /\ UNCHANGED <<pl, sysVars>>

Init ==
    /\ bin \in BOOLEAN
    /\ InitSerialState
    /\ InitProcess

RootProcess ==
    EnableRawMode \/ Fork \/ ParentWaitExited \/ ParentWaitSignaled \/ MainReturnsRoot

MainThread == MainThreadElsewhere \/ MainHandle

ListenerThread ==
    \/ ListenerPoll \/ ListenerCtrlR \/ ListenerCtrlC \/ ListenerOtherEvent
    \/ ListenerLock \/ ListenerReset \/ ListenerExit

Surroundings == ChildSignaled \/ SessionTick

Next == RootProcess \/ MainThread \/ ListenerThread \/ Surroundings

Spec == Init /\ [][Next]_vars

\* The in-process variant on its own, no binary configured, with the
\* scheduling of the host: each thread that can take a step takes one in
\* the end, and time goes on.  MainHandle is enabled exactly when mpc is
\* "handle" and leaves that place, so that weak fairness of it is
\* []<>(mpc # "handle").
InitLive ==
    /\ Init
    /\ platform = "windows" /\ ~bin /\ dtr /\ rts

NextLive ==
    \/ EnableRawMode \/ MainReturnsRoot
    \/ MainThread \/ ListenerThread
    \/ SessionTick

SpecLive ==
    /\ InitLive /\ [][NextLive]_vars
    /\ WF_vars(MainThreadElsewhere) /\ []<>(mpc # "handle")
    /\ WF_vars(ListenerThread) /\ WF_vars(SessionTick)


(***************************************************************************)
(* Properties of the line assembler.                                       *)
(***************************************************************************)
NonEmptyLine(l) == l # <<>>

\* the segments of text that a line-feed ends, the empty ones removed
CompletedLines(text) == SelectSeq(Front(Split(text, LF)), NonEmptyLine)

\* the text after the last line-feed, found by position
AfterLastLF(text) ==
    LET at == { i \in 1..Len(text) : text[i] = LF }
        m  == IF at = {} THEN 0 ELSE CHOOSE i \in at : \A j \in at : j <= i
    IN  SubSeq(text, m + 1, Len(text))

\* the text before the first line-feed, and the text after it
BeforeFirstLF(text) ==
    LET m == CHOOSE i \in 1..Len(text) : text[i] = LF /\ \A j \in 1..(i - 1) : text[j] # LF
    IN  SubSeq(text, 1, m - 1)

AfterFirstLF(text) == Drop(text, Len(BeforeFirstLF(text)) + 1)

HasLF(text) == \E i \in 1..Len(text) : text[i] = LF

\* the lines printed by the latest call of handle_serial
NewLines == SubSeq(emitted, lastCall.printed + 1, Len(emitted))

\* C1: with no binary configured and no call finding a fragment older than
\* the threshold, the lines emitted are the line-feed-terminated, non-empty
\* segments of the decoded whole byte string, in order, however the string
\* was cut into chunks.
C1_ChunkingInvariant ==
    (~bin /\ ~lateCall) => emitted = CompletedLines(Utf8Lossy(rxBytes))

\* C7: after every call of handle_serial the pending fragment holds no
\* line-feed and is the received text after the most recent line-feed; it
\* is empty after a chunk whose last byte is a line-feed.
C7_FragmentIsTail ==
    rxBytes # <<>> =>
        /\ ~HasLF(unfinished_line)
        /\ unfinished_line = AfterLastLF(rxText)
        /\ Last(lastCall.buf) = LF => unfinished_line = <<>>

\* C7 witness: a call whose chunk ends with a line-feed began with a
\* pending fragment and left none.
C7_Witness ==
    /\ lastCall.unfinished # <<>>
    /\ lastCall.buf # <<>> /\ Last(lastCall.buf) = LF
    /\ unfinished_line = <<>>

\* C8: a call that begins with a pending fragment F, not older than the
\* threshold, and whose chunk begins with a segment S ended by a line-feed
\* prints F \o S as one line, then the later non-empty complete segments of
\* the chunk as they are, and leaves only the chunk's own tail pending.
C8_FragmentJoinedOnce ==
    LET data == Utf8Lossy(lastCall.buf)
    IN  (lastCall.unfinished # <<>> /\ ~lastCall.late
            /\ HasLF(data)) =>
          /\ NewLines = <<lastCall.unfinished \o BeforeFirstLF(data)>>
                            \o CompletedLines(AfterFirstLF(data))
          /\ unfinished_line = AfterLastLF(data)

\* C8 witness: fragment "A", then a chunk "A\n...": one line "AA".
C8_Witness ==
    /\ lastCall.unfinished = <<65>>
    /\ HasLF(Utf8Lossy(lastCall.buf)) /\ BeforeFirstLF(Utf8Lossy(lastCall.buf)) = <<65>>
    /\ NewLines # <<>> /\ NewLines[1] = <<65, 65>>
    /\ ~bin


\* the number of line-feeds in bytes
RECURSIVE CountLF(_)
CountLF(bytes) ==
    IF bytes = <<>> THEN 0
    ELSE (IF bytes[1] = LF THEN 1 ELSE 0) + CountLF(Drop(bytes, 1))

\* C18: lines are printed only by a call of handle_serial whose chunk
\* holds a line-feed, and never more of them than line-feeds received,
\* whatever time passed between the chunks; while no line-feed has been
\* received nothing is printed and the fragment is all the text received.
C18_NoLineWithoutLineFeed ==
    /\ Len(emitted) <= CountLF(rxBytes)
    /\ NewLines # <<>> => HasLF(lastCall.buf)
    /\ CountLF(rxBytes) = 0 => (emitted = <<>> /\ unfinished_line = rxText)

\* C18 witness: two chunks without a line-feed, the second handled when
\* the fragment left by the first was older than the threshold: nothing is
\* printed and the fragment holds both.
C18_Witness ==
    /\ lastCall.late /\ lastCall.unfinished # <<>>
    /\ lastCall.buf # <<>> /\ CountLF(rxBytes) = 0
    /\ emitted = <<>>
    /\ unfinished_line = lastCall.unfinished \o Utf8Lossy(lastCall.buf)


(***************************************************************************)
(* Properties of the symbolicator.                                         *)
(***************************************************************************)
\* the resolution of an address token succeeds: the tool ran and wrote
\* valid text that matches the grammar.  (A run that exits with a non-zero
\* status and still writes such text is counted as a success here, as
\* process_line counts it.)
Resolved(r) ==
    /\ r.spawn /\ Utf8Valid(r.stdout)
    /\ Addr2LineCaptures(Utf8Lossy(r.stdout)) # <<>>

\* the annotations " [function:file:line]" that the outcomes of the tool
\* can give
Annotations(oracle) ==
    { FormatName(<<>>, Addr2LineCaptures(Utf8Lossy(oracle[k].stdout))) :
        k \in { j \in 1..Len(oracle) : Resolved(oracle[j]) } }

\* any number of them, up to n, one after the other
AnnotationRuns(oracle, n) == { Concat(q) : q \in SeqsUpTo(Annotations(oracle), n) }

\* line with ann[k] put right after its k-th address token; i is the index
\* in line where the text not yet copied begins
RECURSIVE Annotated(_, _, _, _, _)
Annotated(line, starts, ann, k, i) ==
    IF k > Len(starts) THEN SubSeq(line, i, Len(line))
    ELSE SubSeq(line, i, starts[k] + 9) \o ann[k]
            \o Annotated(line, starts, ann, k + 1, starts[k] + 10)

\* C9: the line returned is the input line with annotations put after
\* address tokens only: every occurrence whose resolution failed is left
\* with no annotation, whatever became of the other occurrences, and the
\* text outside the tokens is unchanged.
C9_FailedTokenVerbatim ==
    pl.called =>
        LET starts == FindIter(pl.line)
        IN  \E ann \in [1..Len(starts) -> AnnotationRuns(pl.oracle, Len(starts))] :
                /\ \A k \in 1..Len(starts) : ~Resolved(pl.oracle[k]) => ann[k] = <<>>
                /\ pl.out = Annotated(pl.line, starts, ann, 1, 1)

\* C10: with no binary configured process_line returns its input and the
\* tool is not run.
C10_NoBinaryNoChange ==
    (pl.called /\ ~bin) => (pl.out = pl.line /\ pl.calls = <<>>)

\* C10 witness: no binary, and a line with an address token that the tool
\* would resolve.
C10_Witness ==
    /\ pl.called /\ ~bin
    /\ FindIter(pl.line) # <<>>
    /\ Resolved(pl.oracle[1])

\* the address token of line that begins at index i
TokenAt(line, i) == SubSeq(line, i, i + 9)

\* the annotation that the k-th outcome gives its own token: none when the
\* resolution failed
OwnAnnotation(oracle, k) ==
    IF Resolved(oracle[k])
    THEN FormatName(<<>>, Addr2LineCaptures(Utf8Lossy(oracle[k].stdout)))
    ELSE <<>>

\* the line given to process_line holds two address tokens, and they differ
TwoDistinctTokens ==
    LET starts == FindIter(pl.line)
    IN  Len(starts) = 2 /\ TokenAt(pl.line, starts[1]) # TokenAt(pl.line, starts[2])

\* C11: for a line with two distinct address tokens the tool is run once
\* for each, in order, whatever the outcome for the other, and each token
\* carries an annotation exactly when its own resolution succeeded.
C11_TokensIndependent ==
    (pl.called /\ bin /\ TwoDistinctTokens) =>
        LET starts == FindIter(pl.line)
        IN  /\ pl.calls = <<TokenAt(pl.line, starts[1]), TokenAt(pl.line, starts[2])>>
            /\ pl.out = Annotated(pl.line, starts,
                                  [k \in 1..2 |-> OwnAnnotation(pl.oracle, k)], 1, 1)

\* C11 witness: two distinct tokens, the first tool run could not be
\* started, the second resolved: only the second token is annotated.
C11_Witness ==
    /\ pl.called /\ bin /\ TwoDistinctTokens
    /\ ~pl.oracle[1].spawn /\ Resolved(pl.oracle[2])
    /\ Len(pl.calls) = 2
    /\ pl.out # pl.line


\* C13: when every resolution succeeds, the line returned is the input
\* line with exactly one annotation after each occurrence of an address
\* token, also when the same token occurs more than once.
C13_OneAnnotationEach ==
    (pl.called /\ bin /\ \A k \in 1..Len(pl.oracle) : Resolved(pl.oracle[k])) =>
        LET starts == FindIter(pl.line)
        IN  pl.out = Annotated(pl.line, starts,
                               [k \in 1..Len(starts) |-> OwnAnnotation(pl.oracle, k)], 1, 1)


\* the grammar as C14 words it, for the first line of text: a function
\* name without whitespace (after an optional address prefix), the token
\* "at" between blanks, then path:line, path without whitespace and line a
\* number or "?"
GrammarOfC14(text) ==
    \E i \in 2..Len(text) : \E j \in (i + 5)..(Len(text) - 1) :
        /\ MatchAt(text, <<32, 97, 116, 32>>, i)
        /\ text[i - 1] \notin {32, LF}
        /\ \A n \in 1..j : text[n] # LF
        /\ \A n \in (i + 4)..(j - 1) : text[n] # 32
        /\ text[j] = 58
        /\ (IsDigit(text[j + 1]) \/ text[j + 1] = 63)

\* C14: for a line with one address token and a tool run that could be
\* started, the token is annotated exactly when the tool wrote valid text
\* of that grammar; output with no address prefix and output with an
\* ordinary path as its file are accepted.
C14_GrammarAccepted ==
    (pl.called /\ bin /\ Len(FindIter(pl.line)) = 1 /\ pl.oracle[1].spawn) =>
        (pl.out # pl.line <=>
            (Utf8Valid(pl.oracle[1].stdout)
                /\ GrammarOfC14(Utf8Lossy(pl.oracle[1].stdout))))


(***************************************************************************)
(* Properties of the session.                                              *)
(***************************************************************************)
\* the main thread is in the read loop of run_child
InReadLoop == mpc \in {"lock", "read", "handle", "sleep"}

\* C2: when the device has gone quiet with a fragment pending and the
\* fragment is older than the idle threshold, the read loop in the end
\* prints it and leaves no fragment pending (or the session has ended).
C2_QuietFragmentFlushed ==
    (DeviceQuiet /\ InReadLoop /\ unfinished_line # <<>>
        /\ sinceLast > UNFINISHED_LINE_TIMEOUT)
      ~> (unfinished_line = <<>> \/ ~InReadLoop)

\* C3: the main loop's read and the listener's reset are never both inside
\* their device operation, and each is there only as the holder of the
\* mutex: no control line is written while a read is in flight, and no
\* read starts while a reset is between its writes.
C3_MutualExclusion ==
    /\ ~(mpc = "read" /\ lpc \in ResetPcs)
    /\ mpc = "read" => lockHolder = "main"
    /\ lpc \in ResetPcs => lockHolder = "stdin"

\* C3 witness: Ctrl+R came while a read was in flight; the reset has now
\* written DTR and RTS once and the main loop waits for the mutex.
C3_Witness ==
    /\ resetDuringRead /\ lpc = "reset_rts0"
    /\ resetLog = << <<"dtr", FALSE>>, <<"rts", TRUE>> >>
    /\ mpc = "lock"

\* the failures that halt a session
SessionFailures == {"open", "reset", "read", "listener"}

\* C4: a session halted by a failure (the device cannot be opened or
\* configured, the start-up reset fails, a read fails, the listener fails)
\* ends with a nonzero exit status for the invoker.
C4_FailureExitsNonzero ==
    (exitStatus # -1 /\ haltCause \in SessionFailures) => exitStatus # 0

\* run has entered raw mode
RawEntered == ppc # "start" /\ runErr # "enable"

\* C5: when the process the invoker started has ended and run had entered
\* raw mode, the terminal is out of raw mode (unless disable_raw_mode
\* itself failed).
C5_RawModeRestored ==
    (exitStatus # -1 /\ RawEntered /\ runErr # "disable") => ~rawMode

\* the status the invoker sees, once there is one
ExitStatusRule ==
    /\ haltCause = "quit" => exitStatus = 0
    /\ haltCause = "listener" => exitStatus = 1
    /\ (platform = "unix" /\ childState = "exited") => exitStatus = childStatus
    /\ (platform = "unix" /\ childState = "signaled") => exitStatus = 255

\* the parent of the fork variant does not end while its child runs
ParentOutlivesChild ==
    (exitStatus # -1 /\ platform = "unix") => childState # "running"

IdleReads == {"zero", "TimedOut", "WouldBlock"}

\* a step of the main thread from place a that is not the end of the process
MainLeaves(a) == mpc = a /\ mpc' \notin {a, "dead"}

\* C12: a read that returns zero bytes, TimedOut or WouldBlock leaves the
\* fragment and the output as they are and leads to the sleep, after which
\* the loop takes the lock for the next read, handle_serial not having been
\* called; a read that returns bytes leads to handle_serial; any other
\* error ends the loop with that error, and no read follows it.
C12_IdleReadsRetryErrorsEnd ==
    /\ [][ MainLeaves("read") =>
             \/ lastRead' = "data" /\ mpc' = "handle"
             \/ /\ lastRead' \in IdleReads /\ mpc' = "sleep"
                /\ UNCHANGED serVars
             \/ lastRead' = "error" /\ mpc' = "ret" /\ runErr' = "read" ]_vars
    /\ [][ MainLeaves("sleep") => (mpc' = "lock" /\ UNCHANGED serVars) ]_vars
    /\ [](mpc = "sleep" => lastRead \in IdleReads)
    /\ [](lastRead = "error" => (mpc \in {"ret", "main", "dead"} /\ lockHolder # "main"))

\* C12 witness: a read has timed out with a fragment pending and a line
\* already printed; the main thread is in its sleep.
C12_Witness ==
    /\ mpc = "sleep" /\ lastRead = "TimedOut"
    /\ unfinished_line # <<>> /\ emitted # <<>>

\* C15: a reset that the listener has been asked for (it is at its
\* dev.lock()) is performed in the end, the listener being back at its
\* poll or failed by the reset, unless the read loop has ended.
C15_ResetEventuallyDone ==
    (lpc = "lock" /\ InReadLoop)
      ~> (lpc \in {"poll", "event", "failed"} \/ ~InReadLoop)

\* C16: the main thread holds the mutex exactly while its read is in
\* progress, so never while it decodes and prints or sleeps; the listener
\* holds it exactly while it is inside reset_chip, so not after the reset
\* has succeeded or failed.
C16_LockHeldOnlyForDeviceCalls ==
    /\ lockHolder = "main" <=> mpc = "read"
    /\ lockHolder = "stdin" <=> lpc \in ResetPcs
    /\ mpc \in {"handle", "sleep"} => lockHolder \in {"none", "stdin"}

\* C16 witness: the main thread is about to call handle_serial with a
\* chunk it has read while the listener, holding the mutex, is in the
\* middle of a reset.
C16_Witness ==
    /\ mpc = "handle" /\ buf # <<>>
    /\ lockHolder = "stdin" /\ lpc = "reset_rts1"

\* the control-line writes of one reset, in order
ResetWrites == << <<"dtr", FALSE>>, <<"rts", TRUE>>, <<"rts", FALSE>> >>

\* the writes done so far by the latest reset are the first ones of
\* ResetWrites, and the lines are as those writes left them
ResetInOrder ==
    /\ \E n \in 0..3 : resetLog = SubSeq(ResetWrites, 1, n)
    /\ Len(resetLog) >= 1 => ~dtr
    /\ Len(resetLog) = 2 => rts
    /\ Len(resetLog) = 3 => ~rts

\* a step of reset_chip that fails writes nothing more and gives the error
\* to the caller: run_child returns it, the listener ends with it
ResetFailureSkipsRest ==
    /\ (mpc \in ResetPcs /\ mpc' = "ret") =>
            (runErr' = "reset" /\ UNCHANGED <<dtr, rts, resetLog>>)
    /\ (lpc \in ResetPcs /\ lpc' = "failed") => UNCHANGED <<dtr, rts, resetLog>>
    /\ (mpc \in ResetPcs /\ mpc' = "spawn") => resetLog' = ResetWrites
    /\ (lpc \in ResetPcs /\ lpc' = "poll") => resetLog' = ResetWrites

\* C17, as amended: the writes of a reset are DTR off, RTS on, RTS off in
\* that order; after a reset that succeeded both lines are off; a failing
\* step skips the rest and returns the error; the reset itself has RTS on
\* only between its second and its third write (after a reset that failed
\* earlier RTS is as the reset found it).
C17_ResetOrder ==
    /\ []ResetInOrder
    /\ [][ResetFailureSkipsRest]_vars

\* C17 witness: a reset asked for with Ctrl+R has done its three writes,
\* the listener polls again, both lines are off.
C17_Witness ==
    /\ nResets = 1 /\ lpc = "poll" /\ lockHolder = "none"
    /\ resetLog = ResetWrites
    /\ ~dtr /\ ~rts

\* C17 as stated: the same, and after a start-up reset that failed RTS is
\* on only if the final write was the one that failed.
C17_RtsOnOnlyAfterFinalWriteFails ==
    /\ ResetInOrder
    /\ (mpc = "ret" /\ runErr = "reset" /\ rts) => Len(resetLog) = 2

\* no read of the device has been made, and no reset by the listener
NothingReadYet ==
    /\ lastRead = "none" /\ buf = <<>> /\ rxBytes = <<>>
    /\ nResets = 0 /\ lockHolder = "none"

\* C19: while the start-up reset runs the listener does not exist and
\* nothing has been read; with reset-on-start the listener is started only
\* after the three writes of the start-up reset; after a start-up reset
\* that failed the listener was never started and nothing is ever read.
C19_StartupResetFirst ==
    /\ mpc \in ResetPcs => (lpc = "none" /\ NothingReadYet)
    /\ (argsReset /\ mpc = "spawn") => (resetLog = ResetWrites /\ lpc = "none")
    /\ (argsReset /\ InReadLoop /\ nResets = 0) => (resetLog = ResetWrites /\ ~dtr /\ ~rts)
    /\ (runErr = "reset" \/ haltCause = "reset") =>
            (lpc \in {"none", "dead"} /\ ~InReadLoop /\ NothingReadYet)

\* C19 witness: reset-on-start, the start-up reset has done its three
\* writes, the listener polls and the first read is in progress.
C19_Witness ==
    /\ argsReset /\ resetLog = ResetWrites
    /\ lpc = "poll" /\ mpc = "read" /\ rxBytes = <<>> /\ buf = <<>>

====
